---- MODULE Spec2Model ----
(***************************************************************************)
(* Model of electron-shortcuts: src/src/main.ts (the registration API) and *)
(* src/src/cache.ts (the three shortcut maps).                             *)
(*                                                                         *)
(* A raw accelerator string is modelled by the sequence of its tokens, the *)
(* result of String.split('+'); two strings are equal iff their token      *)
(* sequences are.  A handler closure is modelled by the record of what it  *)
(* closes over.  Every register call builds a new closure; two closures    *)
(* with equal records behave alike, and removeListener takes out the most  *)
(* recently added equal entry, as Node's EventEmitter does for a function  *)
(* that was added twice.                                                   *)
(***************************************************************************)
EXTENDS Integers, Sequences, FiniteSets, TLC

VARIABLES
  accelerators,       \* the accelerator strings the application uses in this run
  windows,            \* BrowserWindow.getAllWindows(): ids of the open windows, in order
  localShortcutMap,   \* cache.ts:4    key <<accelerator, webContents.id>> -> handler
  allShortcutMap,     \* cache.ts:30   key accelerator -> window-creation handler
  globalShortcutMap,  \* cache.ts:49   key accelerator -> callback
  wcListeners,        \* per window: listeners of 'before-input-event', in order
  appListeners,       \* listeners of app's 'browser-window-created', in order
  osBindings,         \* what Electron's globalShortcut holds: accelerator -> callback
  last                \* the call or event that produced this state, and how it ended

vars == <<accelerators, windows, localShortcutMap, allShortcutMap, globalShortcutMap,
          wcListeners, appListeners, osBindings, last>>

----------------------------------------------------------------------------
(* Bounds and input sets *)

MaxWindows == 2
MaxAppListeners == 2

WindowIds == 1..MaxWindows
Callbacks == {"cb1", "cb2"}

CtrlShiftA == <<"Ctrl", "Shift", "A">>
shiftctrla == <<"shift", "ctrl", "a">>
AplusB     == <<"A", "B">>
CtrlShift  == <<"Ctrl", "Shift">>
Empty      == <<"">>
ControlA   == <<"Control", "A">>
CmdOrCtrlShiftP == <<"CommandOrControl", "Shift", "P">>
constructor == <<"constructor">>

Malformed == {AplusB, CtrlShift, Empty}
Accelerators == {CtrlShiftA, shiftctrla} \cup Malformed

----------------------------------------------------------------------------
(* utils.ts and input.ts: the accelerator parser and the Input flags *)

toLowerCase(t) ==
  CASE t = "Ctrl"  -> "ctrl"
    [] t = "Shift" -> "shift"
    [] t = "A"     -> "a"
    [] t = "B"     -> "b"
    [] t = "P"     -> "p"
    [] t = "Control" -> "control"
    [] t = "CommandOrControl" -> "commandorcontrol"
    [] OTHER       -> t

ModifierAliases ==
  {"commandorcontrol", "cmdorctrl", "control", "ctrl", "command", "cmd",
   "alt", "option", "altgr", "shift", "super", "meta"}

isModifier(t) == toLowerCase(t) \in ModifierAliases

\* split(accelerator): [modifier tokens, non-modifier tokens], each in order
split(a) ==
  <<SelectSeq(a, isModifier), SelectSeq(a, LAMBDA t : ~isModifier(t))>>

\* the accelerators split accepts: exactly one non-modifier token, none empty
WellFormed(a) ==
  /\ Len(split(a)[2]) = 1
  /\ \A i \in 1..Len(a) : a[i] # ""

normalizeModifier(t) ==
  LET l == toLowerCase(t) IN
  CASE l \in {"commandorcontrol", "cmdorctrl"} -> "CommandOrControl"
    [] l \in {"control", "ctrl"}               -> "Control"
    [] l \in {"command", "cmd"}                -> "Command"
    [] l \in {"alt", "option", "altgr"}        -> "Alt"
    [] l = "shift"                             -> "Shift"
    [] l \in {"super", "meta"}                 -> "Super"

\* duplicates collapse: the result is a set
normalizeModifiers(ms) == {normalizeModifier(ms[i]) : i \in 1..Len(ms)}

normalizeNonModifier(t) == toLowerCase(t)

inputProperties == {"control", "meta", "alt", "shift"}

normalizedModifierToInputProperty(m, mac) ==
  CASE m = "CommandOrControl" -> IF mac THEN "meta" ELSE "control"
    [] m = "Control"          -> "control"
    [] m = "Command"          -> "meta"
    [] m = "Super"            -> "meta"
    [] m = "Alt"              -> "alt"
    [] m = "Shift"            -> "shift"

----------------------------------------------------------------------------
(* Small helpers on maps and listener lists *)

\* delete map[k]
Without(map, k) == [x \in DOMAIN map \ {k} |-> map[x]]

\* map[k] = v
With(map, k, v) == [x \in DOMAIN map \cup {k} |-> IF x = k THEN v ELSE map[x]]

\* EventEmitter.removeListener: takes out the last entry equal to h, if any
removeListener(ls, h) ==
  LET at == {i \in 1..Len(ls) : ls[i] = h} IN
  IF at = {} THEN ls
  ELSE LET k == CHOOSE i \in at : \A j \in at : j <= i IN
       [i \in 1..(Len(ls) - 1) |-> IF i < k THEN ls[i] ELSE ls[i + 1]]

\* the process state the API works on, as one record
World ==
  [local |-> localShortcutMap, all |-> allShortcutMap, global |-> globalShortcutMap,
   wcl |-> wcListeners, appl |-> appListeners, os |-> osBindings,
   err |-> "none", osLog |-> <<>>]

----------------------------------------------------------------------------
(* cache.ts *)

\* a lookup of a missing key gives undefined: callers test the key first
hasShortcutLocal(S, a, w) == <<a, w>> \in DOMAIN S.local
getShortcutLocal(S, a, w) == S.local[<<a, w>>]
setShortcutLocal(S, a, w, h) == [S EXCEPT !.local = With(@, <<a, w>>, h)]

\* a delete that leaves the entry in the map
deleteShortcutLocalKept(S, a, w) == S

deleteShortcutLocal(S, a, w) == [S EXCEPT !.local = Without(@, <<a, w>>)]

hasShortcutOnAll(S, a) == a \in DOMAIN S.all
getShortcutOnAll(S, a) == S.all[a]
setShortcutOnAll(S, a, h) == [S EXCEPT !.all = With(@, a, h)]
deleteShortcutOnAll(S, a) == [S EXCEPT !.all = Without(@, a)]

hasShortcutGlobal(S, a) == a \in DOMAIN S.global
getShortcutGlobal(S, a) == S.global[a]
setShortcutGlobal(S, a, f) == [S EXCEPT !.global = With(@, a, f)]
deleteShortcutGlobal(S, a) == [S EXCEPT !.global = Without(@, a)]

----------------------------------------------------------------------------
(* main.ts: queries, !!get...(key) *)

\* allShortcutMap and globalShortcutMap are object literals (cache.ts:30, 49)
\* read by map[accelerator]: a key the map does not hold is looked up on
\* Object.prototype, whose members are functions, hence truthy.  The keys of
\* localShortcutMap end in -<id> and meet no such member.
ObjectPrototype ==
  {constructor, <<"toString">>, <<"valueOf">>, <<"hasOwnProperty">>}

inherited(a) == a \in ObjectPrototype

isRegisteredLocal(S, a, w) == hasShortcutLocal(S, a, w)
isRegisteredOnAll(S, a) == hasShortcutOnAll(S, a) \/ inherited(a)
isRegisteredGlobal(S, a) == hasShortcutGlobal(S, a) \/ inherited(a)

----------------------------------------------------------------------------
(* main.ts: the handler register builds (lines 51-94), run on one Input.   *)
(* The result is the sequence of callbacks it invokes: <<f>> or <<>>.      *)

inputModifiers(a, mac) ==
  {normalizedModifierToInputProperty(m, mac) : m \in normalizeModifiers(split(a)[1])}

\* a check that is content with one of the modifiers
modifiersCheckNonStrictSome(a, i, mac) == \E mod \in inputModifiers(a, mac) : i[mod]

\* lines 75-76
modifiersCheckNonStrict(a, i, mac) == \A mod \in inputModifiers(a, mac) : i[mod]

\* a strict check that lets other modifiers pass
modifiersCheckStrictLoose(a, i, mac) == \A mod \in inputModifiers(a, mac) : i[mod]

\* lines 63-72
modifiersCheckStrict(a, i, mac) ==
  /\ modifiersCheckNonStrict(a, i, mac)
  /\ \A mod \in inputProperties \ inputModifiers(a, mac) : ~i[mod]

modifiersCheck(h, i, mac) ==
  IF h.strict THEN modifiersCheckStrict(h.acc, i, mac)
  ELSE modifiersCheckNonStrict(h.acc, i, mac)

onKeyDown(h, i, mac) ==
  IF /\ toLowerCase(i.key) = toLowerCase(normalizeNonModifier(split(h.acc)[2][1]))
     /\ modifiersCheck(h, i, mac)
  THEN <<h.f>> ELSE <<>>

\* a handler that treats a key-up as a key-down
handlerAnyType(h, i, mac) == onKeyDown(h, i, mac)

\* lines 93-94
handler(h, i, mac) == IF i.type = "keyUp" THEN <<>> ELSE onKeyDown(h, i, mac)

----------------------------------------------------------------------------
(* main.ts: local scope *)

\* an unregister that deletes the entry and leaves the handler attached
unregisterKeepsListener(S, a, w) ==
  IF ~hasShortcutLocal(S, a, w) THEN [S EXCEPT !.err = "TypeError"]
  ELSE deleteShortcutLocal(S, a, w)

\* an unregister that also drops the all-windows entry of the accelerator
unregisterDropsOnAll(S, a, w) ==
  IF ~hasShortcutLocal(S, a, w) THEN [S EXCEPT !.err = "TypeError"]
  ELSE LET h == getShortcutLocal(S, a, w) IN
       deleteShortcutOnAll(
         deleteShortcutLocal([S EXCEPT !.wcl[w] = removeListener(@, h)], a, w), a)

\* lines 144-156.  The guard is on webContents, which every window has, so
\* doUnregister always runs; with no entry the handler is undefined and
\* EventEmitter.removeListener(event, undefined) throws a TypeError before
\* the delete.
unregister(S, a, w) ==
  IF ~hasShortcutLocal(S, a, w) THEN [S EXCEPT !.err = "TypeError"]
  ELSE LET h == getShortcutLocal(S, a, w) IN
       deleteShortcutLocal([S EXCEPT !.wcl[w] = removeListener(@, h)], a, w)

\* a register that never removes the handler it replaces
unregisterPreviousNever(S, a, w) == S

\* lines 96-101
unregisterPreviousIfNeeded(S, a, w) ==
  IF isRegisteredLocal(S, a, w) THEN unregister(S, a, w) ELSE S

\* lines 44-116.  split (line 55) raises MalformedAccelerator before anything
\* else happens.
register(S, a, f, w, strict) ==
  IF ~WellFormed(a) THEN [S EXCEPT !.err = "MalformedAccelerator"]
  ELSE LET h  == [acc |-> a, f |-> f, strict |-> strict]
           S1 == unregisterPreviousIfNeeded(S, a, w)
           S2 == setShortcutLocal(S1, a, w, h)
       IN [S2 EXCEPT !.wcl[w] = Append(@, h)]

----------------------------------------------------------------------------
(* main.ts: all-windows scope *)

\* windows.forEach(win => register(...)): an exception ends the loop
RECURSIVE forEachRegister(_, _, _, _, _)
forEachRegister(S, ws, a, f, strict) ==
  IF ws = <<>> THEN S
  ELSE LET S1 == register(S, a, f, Head(ws), strict) IN
       IF S1.err # "none" THEN S1 ELSE forEachRegister(S1, Tail(ws), a, f, strict)

\* windows.forEach(win => unregister(...)): an exception ends the loop
RECURSIVE forEachUnregister(_, _, _)
forEachUnregister(S, ws, a) ==
  IF ws = <<>> THEN S
  ELSE LET S1 == unregister(S, a, Head(ws)) IN
       IF S1.err # "none" THEN S1 ELSE forEachUnregister(S1, Tail(ws), a)

\* a registerOnAll that subscribes for future windows and skips the open ones
registerOnAllFutureOnly(S, ws, a, f, strict) ==
  LET g == [acc |-> a, f |-> f, strict |-> strict] IN
  setShortcutOnAll([S EXCEPT !.appl = Append(@, g)], a, g)

\* lines 120-141.  The creation handler closes over (accelerator, f, options).
registerOnAll(S, ws, a, f, strict) ==
  LET g  == [acc |-> a, f |-> f, strict |-> strict]
      S1 == [S EXCEPT !.appl = Append(@, g)]
      S2 == setShortcutOnAll(S1, a, g)
  IN forEachRegister(S2, ws, a, f, strict)

\* lines 160-174.  With no entry of its own an inherited member passes the
\* guard; it is no listener of app, so removeListener and delete do nothing.
unregisterOnAll(S, ws, a) ==
  LET S1 == IF hasShortcutOnAll(S, a)
            THEN deleteShortcutOnAll(
                   [S EXCEPT !.appl = removeListener(@, getShortcutOnAll(S, a))], a)
            ELSE S
  IN forEachUnregister(S1, ws, a)

\* app.emit('browser-window-created', w): the listeners run in the order they
\* were added, each calling register (lines 128-129); an exception ends the run
RECURSIVE emitWindowCreated(_, _, _)
emitWindowCreated(S, ls, w) ==
  IF ls = <<>> THEN S
  ELSE LET g  == Head(ls)
           S1 == register(S, g.acc, g.f, w, g.strict)
       IN IF S1.err # "none" THEN S1 ELSE emitWindowCreated(S1, Tail(ls), w)

----------------------------------------------------------------------------
(* main.ts: global scope, and Electron's globalShortcut *)

\* globalShortcut.register(a, f): binds a to f unless a is bound already (the
\* call then returns false and the old binding stays); granted tells whether
\* the platform accepts the request.
globalShortcutRegister(S, a, f, granted) ==
  LET S1 == [S EXCEPT !.osLog = Append(@, <<"register", a>>)] IN
  IF a \in DOMAIN S.os \/ ~granted THEN S1
  ELSE [S1 EXCEPT !.os = With(@, a, f)]

\* globalShortcut.unregister(a)
globalShortcutUnregister(S, a) ==
  [S EXCEPT !.osLog = Append(@, <<"unregister", a>>), !.os = Without(@, a)]

\* an unregisterGlobal that forgets the entry and keeps the OS-level binding
unregisterGlobalStoreOnly(S, a) == deleteShortcutGlobal(S, a)

\* lines 199-208: doUnregister runs whether or not the map holds an entry
unregisterGlobal(S, a) == globalShortcutUnregister(deleteShortcutGlobal(S, a), a)

\* a registerGlobal that does not release the binding it replaces
registerGlobalKeepsPrevious(S, a, f, granted) ==
  globalShortcutRegister(setShortcutGlobal(S, a, f), a, f, granted)

\* lines 178-196
registerGlobal(S, a, f, granted) ==
  LET S1 == IF isRegisteredGlobal(S, a) THEN unregisterGlobal(S, a) ELSE S
      S2 == setShortcutGlobal(S1, a, f)
  IN globalShortcutRegister(S2, a, f, granted)

----------------------------------------------------------------------------
(* The state machine *)

NoMap == [x \in {} |-> x]

\* no key event
NoInput ==
  [type |-> "none", key |-> "", control |-> FALSE, meta |-> FALSE,
   alt |-> FALSE, shift |-> FALSE]

\* the call or event just made: its arguments, whether the store of its scope
\* held an entry for its key when it was made, and how it ended; for a query
\* its result; for a key event the Input, the platform, the callbacks invoked
\* and the listeners that invoked them
Call(op, a, w, f, strict, S) ==
  [op |-> op, acc |-> a, w |-> w, f |-> f, strict |-> strict,
   had |-> CASE op \in {"register", "unregister", "isRegisteredLocal"} ->
                  hasShortcutLocal(World, a, w)
             [] op \in {"registerOnAll", "unregisterOnAll", "isRegisteredOnAll"} ->
                  hasShortcutOnAll(World, a)
             [] op \in {"registerGlobal", "unregisterGlobal", "isRegisteredGlobal"} ->
                  hasShortcutGlobal(World, a)
             [] OTHER -> FALSE,
   err |-> S.err, osLog |-> S.osLog,
   result |-> FALSE, input |-> NoInput, mac |-> FALSE, fired |-> <<>>, by |-> <<>>]

Commit(S) ==
  /\ localShortcutMap' = S.local
  /\ allShortcutMap' = S.all
  /\ globalShortcutMap' = S.global
  /\ wcListeners' = S.wcl
  /\ appListeners' = S.appl
  /\ osBindings' = S.os

\* the process with the windows ws open and nothing registered yet
StartWith(ws) ==
  /\ windows = ws
  /\ localShortcutMap = NoMap
  /\ allShortcutMap = NoMap
  /\ globalShortcutMap = NoMap
  /\ wcListeners = [w \in WindowIds |-> <<>>]
  /\ appListeners = <<>>
  /\ osBindings = NoMap
  /\ last = [op |-> "init", acc |-> <<>>, w |-> 0, f |-> "none", strict |-> FALSE,
             had |-> FALSE, err |-> "none", osLog |-> <<>>,
             result |-> FALSE, input |-> NoInput, mac |-> FALSE,
             fired |-> <<>>, by |-> <<>>]

Start == StartWith(<<>>)

\* window and all-windows scope, one accelerator
Init ==
  /\ accelerators = {CtrlShiftA}
  /\ Start

Open == {windows[i] : i \in 1..Len(windows)}

Register ==
  \E a \in accelerators, f \in Callbacks, w \in Open, strict \in BOOLEAN :
    LET S == register(World, a, f, w, strict) IN
    /\ Commit(S)
    /\ last' = Call("register", a, w, f, strict, S)
    /\ UNCHANGED <<accelerators, windows>>

Unregister ==
  \E a \in accelerators, w \in Open :
    LET S == unregister(World, a, w) IN
    /\ Commit(S)
    /\ last' = Call("unregister", a, w, "none", FALSE, S)
    /\ UNCHANGED <<accelerators, windows>>

\* registerOnAll while app has fewer than cap creation listeners
RegisterOnAllUpTo(cap) ==
  \E a \in accelerators, f \in Callbacks, strict \in BOOLEAN :
    LET S == registerOnAll(World, windows, a, f, strict) IN
    /\ Len(appListeners) < cap
    /\ Commit(S)
    /\ last' = Call("registerOnAll", a, 0, f, strict, S)
    /\ UNCHANGED <<accelerators, windows>>

RegisterOnAll == RegisterOnAllUpTo(MaxAppListeners)

UnregisterOnAll ==
  \E a \in accelerators :
    LET S == unregisterOnAll(World, windows, a) IN
    /\ Commit(S)
    /\ last' = Call("unregisterOnAll", a, 0, "none", FALSE, S)
    /\ UNCHANGED <<accelerators, windows>>

\* the platform accepts every well-formed accelerator; what it does with a
\* malformed one is not fixed
RegisterGlobal ==
  \E a \in accelerators, f \in Callbacks, granted \in BOOLEAN :
    LET S == registerGlobal(World, a, f, granted) IN
    /\ WellFormed(a) => granted
    /\ Commit(S)
    /\ last' = Call("registerGlobal", a, 0, f, FALSE, S)
    /\ UNCHANGED <<accelerators, windows>>

UnregisterGlobal ==
  \E a \in accelerators :
    LET S == unregisterGlobal(World, a) IN
    /\ Commit(S)
    /\ last' = Call("unregisterGlobal", a, 0, "none", FALSE, S)
    /\ UNCHANGED <<accelerators, windows>>

\* a new BrowserWindow: it joins getAllWindows() and app emits
\* 'browser-window-created'
WindowCreated ==
  /\ Len(windows) < MaxWindows
  /\ LET w == Len(windows) + 1
         S == emitWindowCreated(World, appListeners, w)
     IN /\ windows' = Append(windows, w)
        /\ Commit(S)
        /\ last' = Call("windowCreated", <<>>, w, "none", FALSE, S)
        /\ UNCHANGED accelerators

Next ==
  \/ Register
  \/ Unregister
  \/ RegisterOnAll
  \/ UnregisterOnAll
  \/ WindowCreated

Spec == Init /\ [][Next]_vars

\* window and all-windows scope, a well-formed and a malformed accelerator
InitMixed ==
  /\ accelerators \in {{CtrlShiftA, m} : m \in Malformed}
  /\ Start

SpecMixed == InitMixed /\ [][Next]_vars

\* window scope alone: two spellings of one accelerator
InitLocal ==
  /\ accelerators = {CtrlShiftA, shiftctrla}
  /\ Start

NextLocal ==
  \/ Register
  \/ Unregister
  \/ WindowCreated

SpecLocal == InitLocal /\ [][NextLocal]_vars

\* global scope
InitGlobal ==
  /\ accelerators = Accelerators
  /\ Start

NextGlobal ==
  \/ RegisterGlobal
  \/ UnregisterGlobal

SpecGlobal == InitGlobal /\ [][NextGlobal]_vars

----------------------------------------------------------------------------
(* What a window's key-event stream does with one Input *)

Keys == {"a", "A", "p"}

Inputs ==
  [type : {"keyDown", "keyUp"}, key : Keys,
   control : BOOLEAN, meta : BOOLEAN, alt : BOOLEAN, shift : BOOLEAN]

\* wc.emit('before-input-event', event, i): the callbacks the listeners ls
\* invoke, in order
RECURSIVE emit(_, _, _)
emit(ls, i, mac) ==
  IF ls = <<>> THEN <<>> ELSE handler(Head(ls), i, mac) \o emit(Tail(ls), i, mac)

\* the listeners of window w that were registered for accelerator a
handlersFor(w, a) == SelectSeq(wcListeners[w], LAMBDA h : h.acc = a)

\* the creation listeners that were registered for accelerator a
creationHandlersFor(a) == SelectSeq(appListeners, LAMBDA g : g.acc = a)

\* the normalized accelerator of section 3 of the specification
Normalized(a) ==
  [modifiers |-> normalizeModifiers(split(a)[1]),
   key |-> normalizeNonModifier(split(a)[2][1])]

\* a matching key-down for a: its key pressed, in either case, with exactly
\* its modifiers held
MatchingKeyDown(a, mac) ==
  LET held == inputModifiers(a, mac) IN
  {[type |-> "keyDown", key |-> k,
    control |-> "control" \in held, meta |-> "meta" \in held,
    alt |-> "alt" \in held, shift |-> "shift" \in held] :
     k \in {x \in Keys : toLowerCase(x) = Normalized(a).key}}

Returned == last.err = "none"

----------------------------------------------------------------------------
(* Key events and queries as steps *)

Stores ==
  <<localShortcutMap, allShortcutMap, globalShortcutMap, wcListeners,
    appListeners, osBindings>>

\* the webContents of w emits 'before-input-event' with Input i.  The
\* platform is fixed for a run and no state depends on it, so every event is
\* read on either platform.
KeyEvent ==
  \E w \in Open, i \in Inputs, mac \in BOOLEAN :
    /\ last' = [Call("keyEvent", <<>>, w, "none", FALSE, World) EXCEPT
                  !.input = i, !.mac = mac,
                  !.fired = emit(wcListeners[w], i, mac),
                  !.by = SelectSeq(wcListeners[w],
                                   LAMBDA h : handler(h, i, mac) # <<>>)]
    /\ UNCHANGED <<accelerators, windows, Stores>>

IsRegisteredLocal ==
  \E a \in accelerators, w \in Open :
    /\ last' = [Call("isRegisteredLocal", a, w, "none", FALSE, World) EXCEPT
                  !.result = isRegisteredLocal(World, a, w)]
    /\ UNCHANGED <<accelerators, windows, Stores>>

IsRegisteredOnAll ==
  \E a \in accelerators :
    /\ last' = [Call("isRegisteredOnAll", a, 0, "none", FALSE, World) EXCEPT
                  !.result = isRegisteredOnAll(World, a)]
    /\ UNCHANGED <<accelerators, windows, Stores>>

IsRegisteredGlobal ==
  \E a \in accelerators :
    /\ last' = [Call("isRegisteredGlobal", a, 0, "none", FALSE, World) EXCEPT
                  !.result = isRegisteredGlobal(World, a)]
    /\ UNCHANGED <<accelerators, windows, Stores>>

\* one window, two accelerators, key events
InitInput ==
  /\ accelerators = {ControlA, CmdOrCtrlShiftP}
  /\ StartWith(<<1>>)

NextInput ==
  \/ Register
  \/ Unregister
  \/ KeyEvent

SpecInput == InitInput /\ [][NextInput]_vars

\* one window, the three scopes and their queries, one accelerator
InitQuery ==
  /\ accelerators \in {{CtrlShiftA}, {constructor}}
  /\ StartWith(<<1>>)

NextQuery ==
  \/ Register
  \/ Unregister
  \/ RegisterOnAll
  \/ UnregisterOnAll
  \/ RegisterGlobal
  \/ UnregisterGlobal
  \/ IsRegisteredLocal
  \/ IsRegisteredOnAll
  \/ IsRegisteredGlobal

SpecQuery == InitQuery /\ [][NextQuery]_vars

\* the three scopes together: one accelerator, two windows open
InitAll ==
  /\ accelerators = {CtrlShiftA}
  /\ StartWith(<<1, 2>>)

NextAll ==
  \/ Register
  \/ Unregister
  \/ RegisterOnAll
  \/ UnregisterOnAll
  \/ RegisterGlobal
  \/ UnregisterGlobal

SpecAll == InitAll /\ [][NextAll]_vars

\* all-windows scope alone, a well-formed and a malformed accelerator, one
\* more creation listener
InitFuture ==
  /\ accelerators = {CtrlShiftA, AplusB}
  /\ Start

NextFuture ==
  \/ RegisterOnAllUpTo(MaxAppListeners + 1)
  \/ UnregisterOnAll
  \/ WindowCreated

SpecFuture == InitFuture /\ [][NextFuture]_vars

----------------------------------------------------------------------------
(* Claims *)

\* C1: right after register(a, cb, w) returns, isRegisteredLocal(a, w) is
\* true; right after a following unregister(a, w) returns, it is false and no
\* handler for a is attached to w.
C1_RegisterThenUnregister ==
  /\ (last.op = "register" /\ Returned) => isRegisteredLocal(World, last.acc, last.w)
  /\ (last.op = "unregister" /\ Returned) =>
       /\ ~isRegisteredLocal(World, last.acc, last.w)
       /\ handlersFor(last.w, last.acc) = <<>>

C1_Witness ==
  /\ last.op = "unregister" /\ Returned /\ last.had
  /\ \E w \in Open : w # last.w /\ isRegisteredLocal(World, last.acc, w)

\* C2: after register(a, cb, w, options), whatever was registered for (a, w)
\* before, exactly one handler for a is attached to w, it is the one just
\* built, and a matching key-down makes the handlers for a invoke cb once and
\* nothing else.
C2_OneHandlerLatestWins ==
  (last.op = "register" /\ Returned) =>
    /\ handlersFor(last.w, last.acc) =
         <<[acc |-> last.acc, f |-> last.f, strict |-> last.strict]>>
    /\ \A mac \in BOOLEAN : \A i \in MatchingKeyDown(last.acc, mac) :
         emit(handlersFor(last.w, last.acc), i, mac) = <<last.f>>

\* the second of two registrations on one window, the other window holding
\* another callback
C2_Witness ==
  /\ last.op = "register" /\ Returned /\ last.had /\ last.f = "cb2" /\ last.strict
  /\ \E w \in Open : /\ w # last.w
                     /\ isRegisteredLocal(World, last.acc, w)
                     /\ getShortcutLocal(World, last.acc, w).f = "cb1"

\* C3: a window created while no OnAllEntry exists for a (unregisterOnAll(a)
\* was the last all-windows call for a, or there was none) does not receive
\* the shortcut: a is not registered on it and a matching key-down invokes
\* nothing.
C3_NoShortcutAfterUnregisterOnAll ==
  last.op = "windowCreated" =>
    \A a \in accelerators :
      ~isRegisteredOnAll(World, a) =>
        /\ ~isRegisteredLocal(World, a, last.w)
        /\ handlersFor(last.w, a) = <<>>

\* C4: the number of creation handlers subscribed for a is 1 if
\* isRegisteredOnAll(a) and 0 otherwise.
C4_OneCreationHandler ==
  \A a \in accelerators :
    Len(creationHandlersFor(a)) = IF isRegisteredOnAll(World, a) THEN 1 ELSE 0

\* C5: while the OnAllEntry of a well-formed accelerator a stands, a window
\* created has a registered on it, with the callback and options of the entry.
C5_NewWindowReceivesShortcut ==
  last.op = "windowCreated" =>
    \A a \in accelerators :
      (isRegisteredOnAll(World, a) /\ WellFormed(a)) =>
        /\ isRegisteredLocal(World, a, last.w)
        /\ handlersFor(last.w, a) = <<getShortcutOnAll(World, a)>>

\* C6: right after registerOnAll(a, cb, options) returns, isRegisteredOnAll(a)
\* is true and every open window has a registered with exactly one handler,
\* the one for cb and options.
C6_RegisterOnAllCoversOpenWindows ==
  (last.op = "registerOnAll" /\ Returned) =>
    /\ isRegisteredOnAll(World, last.acc)
    /\ \A w \in Open :
         /\ isRegisteredLocal(World, last.acc, w)
         /\ getShortcutLocal(World, last.acc, w) =
              [acc |-> last.acc, f |-> last.f, strict |-> last.strict]
         /\ handlersFor(w, last.acc) = <<getShortcutLocal(World, last.acc, w)>>
         /\ \A mac \in BOOLEAN : \A i \in MatchingKeyDown(last.acc, mac) :
              emit(handlersFor(w, last.acc), i, mac) = <<last.f>>

C6_Witness ==
  /\ last.op = "registerOnAll" /\ Returned /\ last.had /\ last.f = "cb2"
  /\ Len(windows) = MaxWindows
  /\ Len(appListeners) = 2

\* C7: right after unregisterOnAll(a), no open window has a registered or a
\* handler for a attached, and isRegisteredOnAll(a) is false.
C7_UnregisterOnAllClearsOpenWindows ==
  last.op = "unregisterOnAll" =>
    /\ ~isRegisteredOnAll(World, last.acc)
    /\ \A w \in Open :
         /\ ~isRegisteredLocal(World, last.acc, w)
         /\ handlersFor(w, last.acc) = <<>>

\* C8: right after registerGlobal(a, cb) for a well-formed a, whatever was
\* registered before, the one OS-level binding of a invokes cb and the
\* GlobalEntry of a holds cb.
C8_GlobalLastWins ==
  (last.op = "registerGlobal" /\ WellFormed(last.acc)) =>
    /\ last.acc \in DOMAIN osBindings
    /\ osBindings[last.acc] = last.f
    /\ isRegisteredGlobal(World, last.acc)
    /\ getShortcutGlobal(World, last.acc) = last.f

\* both callbacks have been bound to a: cb1 first, cb2 now, another
\* accelerator still bound to cb1
C8_Witness ==
  /\ last.op = "registerGlobal" /\ last.acc = CtrlShiftA /\ last.f = "cb2"
  /\ last.had /\ Len(last.osLog) = 2
  /\ shiftctrla \in DOMAIN osBindings /\ osBindings[shiftctrla] = "cb1"

\* C9: register, registerOnAll and registerGlobal with a malformed
\* accelerator fail with MalformedAccelerator and change no store, no
\* subscription and no OS-level binding.
C9_MalformedChangesNothing ==
  [][(/\ last'.op \in {"register", "registerOnAll", "registerGlobal"}
      /\ ~WellFormed(last'.acc))
     => /\ last'.err = "MalformedAccelerator"
        /\ UNCHANGED <<localShortcutMap, allShortcutMap, globalShortcutMap,
                       wcListeners, appListeners, osBindings>>]_vars

\* C10: after register(a1, cb, w), every spelling a2 of the same normalized
\* accelerator is registered on w, and a matching key-down on w invokes cb
\* once and nothing else.
C10_KeyedByNormalizedAccelerator ==
  (last.op = "register" /\ Returned) =>
    \A a2 \in accelerators :
      (WellFormed(a2) /\ Normalized(a2) = Normalized(last.acc)) =>
        /\ isRegisteredLocal(World, a2, last.w)
        /\ \A mac \in BOOLEAN : \A i \in MatchingKeyDown(last.acc, mac) :
             emit(wcListeners[last.w], i, mac) = <<last.f>>

\* section 4.2 of the specification: the flags an accelerator requires, the
\* flags a snapshot holds, and the key comparison
RequiredFlags(a, mac) ==
  {normalizedModifierToInputProperty(m, mac) : m \in Normalized(a).modifiers}

HeldFlags(i) == {p \in inputProperties : i[p]}

KeyMatches(i, a) == toLowerCase(i.key) = toLowerCase(Normalized(a).key)

\* the listeners of the window of the last key event
Delivered == wcListeners[last.w]

InvokedBy(h) == \E j \in 1..Len(last.by) : last.by[j] = h

\* C11: a key-up snapshot delivered to a window invokes no callback, whatever
\* accelerators are registered on it, strict or not, and whatever key and
\* modifier flags the snapshot carries.
C11_KeyUpInvokesNothing ==
  (last.op = "keyEvent" /\ last.input.type = "keyUp") => last.fired = <<>>

C11_Witness ==
  /\ last.op = "keyEvent" /\ last.input.type = "keyUp" /\ last.fired = <<>>
  /\ \E k \in 1..Len(Delivered) :
       /\ KeyMatches(last.input, Delivered[k].acc)
       /\ RequiredFlags(Delivered[k].acc, last.mac) = HeldFlags(last.input)

\* C12: a handler registered without strict invokes its callback on a
\* key-down exactly when the snapshot's key equals the accelerator's key,
\* case-insensitively, and every modifier of the accelerator has its flag
\* set; other held modifiers are ignored.  The callbacks invoked are those of
\* the handlers that matched.
C12_NonStrictMatch ==
  (last.op = "keyEvent" /\ last.input.type = "keyDown") =>
    /\ \A k \in 1..Len(Delivered) :
         LET h == Delivered[k] IN
         ~h.strict =>
           (InvokedBy(h) <=>
              /\ KeyMatches(last.input, h.acc)
              /\ RequiredFlags(h.acc, last.mac) \subseteq HeldFlags(last.input))
    /\ last.fired = [j \in 1..Len(last.by) |-> last.by[j].f]

\* Control+A, not strict, on {key: "a", control, shift}
C12_Witness ==
  /\ last.op = "keyEvent"
  /\ last.input = [type |-> "keyDown", key |-> "a", control |-> TRUE,
                   shift |-> TRUE, meta |-> FALSE, alt |-> FALSE]
  /\ \E k \in 1..Len(Delivered) :
       /\ Delivered[k].acc = ControlA /\ ~Delivered[k].strict
       /\ last.fired = <<Delivered[k].f>>

\* C13: a handler registered with strict invokes its callback on a key-down
\* exactly when the key matches, case-insensitively, and the set of modifier
\* flags held on the snapshot equals the set the accelerator requires.
C13_StrictMatch ==
  (last.op = "keyEvent" /\ last.input.type = "keyDown") =>
    \A k \in 1..Len(Delivered) :
      LET h == Delivered[k] IN
      h.strict =>
        /\ InvokedBy(h) <=>
             /\ KeyMatches(last.input, h.acc)
             /\ RequiredFlags(h.acc, last.mac) = HeldFlags(last.input)
        /\ InvokedBy(h) => \E j \in 1..Len(last.fired) : last.fired[j] = h.f

\* CommandOrControl+Shift+P, strict, on the platform modifier, shift and alt
C13_Witness ==
  /\ last.op = "keyEvent" /\ last.input.type = "keyDown"
  /\ last.input.key = "p" /\ last.input.shift /\ last.input.alt
  /\ last.input[IF last.mac THEN "meta" ELSE "control"]
  /\ \E k \in 1..Len(Delivered) :
       /\ Delivered[k].acc = CmdOrCtrlShiftP /\ Delivered[k].strict
       /\ ~InvokedBy(Delivered[k])
  /\ last.fired = <<>>
\* C14: unregister(a, w) with no LocalEntry for (a, w) is a no-op and not an
\* error: it signals no failure, detaches no handler and leaves every store
\* and subscription as it was.
C14_UnregisterAbsentIsNoOp ==
  [][(last'.op = "unregister" /\ ~last'.had) =>
       (last'.err = "none" /\ UNCHANGED Stores)]_vars

\* C15: unregisterGlobal(a) with no GlobalEntry for a is a no-op: it makes no
\* OS-level release request, signals no failure and leaves the stores and
\* the OS-level captures as they were.
C15_UnregisterGlobalAbsentIsNoOp ==
  [][(last'.op = "unregisterGlobal" /\ ~last'.had) =>
       (last'.osLog = <<>> /\ last'.err = "none" /\ UNCHANGED Stores)]_vars

\* C16: each of isRegisteredLocal, isRegisteredOnAll and isRegisteredGlobal
\* returns true exactly when its store holds an entry for the key, and a
\* call changes no store and no subscription.
C16_QueriesArePureExistence ==
  [][last'.op \in {"isRegisteredLocal", "isRegisteredOnAll", "isRegisteredGlobal"} =>
       ((last'.result <=> last'.had) /\ UNCHANGED Stores)]_vars

\* C17: in every reachable state of the window and all-windows API, (a, w)
\* has a LocalEntry exactly when one handler for a is attached to w, that
\* handler is the stored one, and no handler is attached without an entry.
C17_LocalRegistryMatchesSubscriptions ==
  \A w \in WindowIds :
    /\ \A a \in accelerators :
         handlersFor(w, a) = IF hasShortcutLocal(World, a, w)
                             THEN <<getShortcutLocal(World, a, w)>> ELSE <<>>
    /\ \A k \in 1..Len(wcListeners[w]) :
         hasShortcutLocal(World, wcListeners[w][k].acc, w)

\* a failed unregisterOnAll that left an entry behind
C17_Witness ==
  /\ last.op = "unregisterOnAll" /\ last.err = "TypeError"
  /\ localShortcutMap # NoMap

\* C18: after registerOnAll(a, cb1) followed by registerOnAll(a, cb2), a
\* window created afterwards has exactly one handler for a, and a matching
\* key-down on it invokes cb2, the callback of the stored entry, once and
\* cb1 never.
C18_LastRegisterOnAllWins ==
  \A a \in accelerators :
    (/\ last.op = "windowCreated"
     /\ WellFormed(a)
     /\ hasShortcutOnAll(World, a)
     /\ Len(creationHandlersFor(a)) >= 2
     /\ creationHandlersFor(a)[Len(creationHandlersFor(a))] = getShortcutOnAll(World, a))
    => /\ Len(handlersFor(last.w, a)) = 1
       /\ \A mac \in BOOLEAN : \A i \in MatchingKeyDown(a, mac) :
            emit(wcListeners[last.w], i, mac) = <<getShortcutOnAll(World, a).f>>

C20_GlobalRegistryMatchesCaptures ==
  \A a \in accelerators :
    /\ a \in DOMAIN osBindings =>
         (hasShortcutGlobal(World, a) /\ osBindings[a] = getShortcutGlobal(World, a))
    /\ (WellFormed(a) /\ hasShortcutGlobal(World, a)) => a \in DOMAIN osBindings

\* a replaced capture next to an untouched one
C20_Witness ==
  /\ last.op = "registerGlobal" /\ last.had /\ last.acc = shiftctrla
  /\ osBindings[shiftctrla] = last.f
  /\ CtrlShiftA \in DOMAIN osBindings /\ osBindings[CtrlShiftA] # last.f
====
